---- MODULE Spec2Model ----
(***************************************************************************)
(* A model of tinytask: the Task / tracer / Callback layer (task.py,       *)
(* callbacks.py, decorators.py) and the NOp evaluator (ops.py).            *)
(*                                                                         *)
(* Spec     : the task layer.  Tasks are constructed, callback sequences   *)
(*            are built, assigned and mutated by the caller, and tasks are *)
(*            invoked directly, traced, or through a Signature.            *)
(* SpecOps  : the evaluator.  The caller builds NOp nodes and evaluates    *)
(*            them with recursive_eval.                                    *)
(*                                                                         *)
(* Python values are encoded with one shape per kind so that any two can   *)
(* be compared:                                                            *)
(*   - an exception is the sequence of type names along its __cause__      *)
(*     chain, outermost first; << >> is "no exception";                    *)
(*   - an optional value is << >> (absent) or <<v>>;                       *)
(*   - keyword arguments are passed through untouched by every function    *)
(*     modelled here and are left out of the state.                        *)
(***************************************************************************)
EXTENDS Integers, Sequences, FiniteSets, TLC

\* ------------------------------------------------------------------ bounds
MaxLen == 2
MaxSeqs == 1
MaxCalls == 2
MaxArgs == 1
MaxLeaves == 2
MaxInner == 2
MaxSrc == 2
MaxEvals == 2
MaxDeps == 2

\* ------------------------------------------------------------ the universe
Tasks == {"A", "B"}

\* A task whose body makes a traced call of another task and returns what it
\* returns: fun_c(x) = A.trace(args=(x,)).
NestingTasks == {"C"}
Inner(t) == "A"
AllTasks == Tasks \cup NestingTasks

\* Instances of Callback subclasses.  cb1 never raises; cb2 may raise from
\* any of its three methods.
CallbackObjs == {"cb1", "cb2"}
RaisingCbs == {"cb2"}
\* An object that is not a Callback and has none of the on_* methods.
OtherObjs == {"obj"}
Objs == CallbackObjs \cup OtherObjs

ArgVals == {0, 1}

SeqsUpTo(S, n) == UNION {[1..k -> S] : k \in 0..n}

VARIABLES
  tasks,      \* the Task objects that exist
  cbref,      \* cbref[t]: the sequence object held in t._callbacks (0: t does not exist)
  seqs,       \* the heap of sequence objects: seqs[id] = [items, mutable]
  stack,      \* the call stack of task invocations in progress
  log,        \* what that invocation, or the one in progress, did: notifications and runs, in order
  outcome,    \* how the top-level invocation that just ended did (until the caller's next operation)
  history,    \* the ends of the earlier top-level invocations
  lastop,     \* what the caller's operation that just ended did, when it touched callbacks
  nodes,      \* the heap of NOp objects
  evalres,    \* the evaluations the caller made, in order: what each was, of which
              \* node, what it returned or raised, and the heap before it
  calls,      \* the payload callables invoked by the last evaluation, in order
  cfg,        \* the tasks a TasksConfigFile declares, in the file's order:
              \* cfg[i] = [name, depends_on]
  cfgout      \* what the last operation on the TasksConfigFile gave

taskVars == <<tasks, cbref, seqs, stack, log, outcome, history, lastop>>
opsVars == <<nodes, evalres, calls>>
cfgVars == <<cfg, cfgout>>
vars == <<tasks, cbref, seqs, stack, log, outcome, history, lastop,
          nodes, evalres, calls, cfg, cfgout>>

\* ------------------------------------------------------- values and errors
NoExc == << >>
NoVal == << >>

TypeError == <<"TypeError">>
AttributeError == <<"AttributeError">>
CallbackError == <<"CallbackError">>

\* BaseException subclasses that are not Exception subclasses: "except
\* Exception" does not catch them.
NonExceptionTypes == {"KeyboardInterrupt", "SystemExit", "GeneratorExit"}
IsException(e) == e # NoExc /\ e[1] \notin NonExceptionTypes

\* gen_task_name: ".".join([module_name, name]), kept as the pair.
gen_task_name(fname, module_name) == <<module_name, fname>>

\* Task.name of the tasks of the universe (task_from_callable, name=None).
TaskName(t) ==
  CASE t = "A" -> gen_task_name("fun_a", "tasks")
    [] t = "B" -> gen_task_name("fun_b", "tasks")
    [] OTHER -> gen_task_name("fun_c", "tasks")

\* The callables the tasks wrap, fun(*args): both take exactly one argument.
\*   fun_a(x) = 10 // x        (ZeroDivisionError at 0)
\*   fun_b(x) = 2 * x          (interrupted at 0: KeyboardInterrupt)
Fun(t, args) ==
  IF Len(args) # 1 THEN [ret |-> NoVal, exc |-> TypeError]
  ELSE IF t = "A"
       THEN IF args[1] = 0 THEN [ret |-> NoVal, exc |-> <<"ZeroDivisionError">>]
                           ELSE [ret |-> <<10 \div args[1]>>, exc |-> NoExc]
       ELSE IF args[1] = 0 THEN [ret |-> NoVal, exc |-> <<"KeyboardInterrupt">>]
                           ELSE [ret |-> <<2 * args[1]>>, exc |-> NoExc]

\* task_from_callable: TaskWrapper.run returns fun(*args, **kwargs).
Run(t, args) == Fun(t, args)

\* ------------------------------------------------------ callback sequences
\* The empty tuple () that Task.__init__ stores: object 1 of the heap.
EmptyTuple == 1

Items(s) == seqs[s].items

\* check_is_callback: isinstance(o, Callback), else TypeError.
check_is_callback(o) == IF o \in CallbackObjs THEN NoExc ELSE TypeError

\* The callbacks setter installing the sequence before it has validated it.
SetterAssignFirst(before, s) ==
  LET bad == {i \in 1..Len(Items(s)) : check_is_callback(Items(s)[i]) # NoExc}
  IN  [exc |-> IF bad = {} THEN NoExc ELSE TypeError, ref |-> s]

\* The callbacks setter (Task.callbacks.setter): validates every element of
\* value, then stores value itself (the same object, no copy).  before is what
\* _callbacks held; the result is the exception raised and what it holds now.
Setter(before, s) ==
  LET bad == {i \in 1..Len(Items(s)) : check_is_callback(Items(s)[i]) # NoExc}
  IN  IF bad = {} THEN [exc |-> NoExc, ref |-> s]
                  ELSE [exc |-> TypeError, ref |-> before]

NoOp == [op |-> "none", task |-> "", arg |-> 0, before |-> 0,
         beforeItems |-> << >>, exc |-> NoExc]

NoOutcome == [state |-> "none", task |-> "", how |-> "", traced |-> FALSE,
              args |-> << >>, ret |-> NoVal, exc |-> NoExc, cbs |-> << >>,
              cbraised |-> FALSE, phases |-> << >>]

\* ----------------------------------------------------------------- Init
InitTask ==
  /\ tasks = {}
  /\ cbref = [t \in AllTasks |-> 0]
  /\ seqs = <<[items |-> << >>, mutable |-> FALSE]>>
  /\ stack = << >>
  /\ log = << >>
  /\ outcome = NoOutcome
  /\ history = << >>
  /\ lastop = NoOp

InitOpsIdle ==
  /\ nodes = << >>
  /\ evalres = << >>
  /\ calls = << >>

NoCfgOut == [op |-> "none", exc |-> NoExc, names |-> << >>]

InitCfgIdle ==
  /\ cfg = << >>
  /\ cfgout = NoCfgOut

Init == InitTask /\ InitOpsIdle /\ InitCfgIdle

Idle == stack = << >>

\* The caller moves on: the record of the invocation that just ended, if any,
\* goes to the history.
Forget ==
  /\ log' = << >>
  /\ outcome' = NoOutcome
  /\ history' = IF outcome.state = "none" THEN history
                ELSE Append(history, [task |-> outcome.task,
                                      state |-> outcome.state])

\* ------------------------------------------- construction and callbacks
\* Task.__init__ (through task_from_callable): name set, _callbacks = ().
Construct(t) ==
  /\ Idle
  /\ t \notin tasks
  /\ tasks' = tasks \cup {t}
  /\ cbref' = [cbref EXCEPT ![t] = EmptyTuple]
  /\ lastop' = [NoOp EXCEPT !.op = "construct", !.task = t]
  /\ Forget
  /\ UNCHANGED <<seqs, stack>>

\* decorators.task(callbacks=s)(fn): task_from_callable, then the callbacks
\* setter; when the setter raises the decorator raises and no task is returned.
Decorate(t, s) ==
  /\ Idle
  /\ t \notin tasks
  /\ s \in 1..Len(seqs)
  /\ LET r == Setter(EmptyTuple, s)
     IN  /\ lastop' = [op |-> "decorate", task |-> t, arg |-> s,
                       before |-> EmptyTuple, beforeItems |-> << >>,
                       exc |-> r.exc]
         /\ IF r.exc = NoExc
            THEN /\ tasks' = tasks \cup {t}
                 /\ cbref' = [cbref EXCEPT ![t] = r.ref]
            ELSE UNCHANGED <<tasks, cbref>>
  /\ Forget
  /\ UNCHANGED <<seqs, stack>>

\* The caller builds a list (mutable) or a tuple of objects.
NewSeq(items, mutable) ==
  /\ Idle
  /\ Len(seqs) < 1 + MaxSeqs
  /\ seqs' = Append(seqs, [items |-> items, mutable |-> mutable])
  /\ lastop' = NoOp
  /\ Forget
  /\ UNCHANGED <<tasks, cbref, stack>>

\* The caller appends to a list it built (list.append), whoever else holds it.
ListAppend(s, o) ==
  /\ Idle
  /\ s \in 1..Len(seqs)
  /\ seqs[s].mutable
  /\ Len(Items(s)) < MaxLen
  /\ seqs' = [seqs EXCEPT ![s].items = Append(@, o)]
  /\ lastop' = NoOp
  /\ Forget
  /\ UNCHANGED <<tasks, cbref, stack>>

\* task.callbacks = s
AssignCallbacks(t, s) ==
  /\ Idle
  /\ t \in tasks
  /\ s \in 1..Len(seqs)
  /\ LET r == Setter(cbref[t], s)
     IN  /\ cbref' = [cbref EXCEPT ![t] = r.ref]
         /\ lastop' = [op |-> "assign", task |-> t, arg |-> s,
                       before |-> cbref[t], beforeItems |-> Items(cbref[t]),
                       exc |-> r.exc]
  /\ Forget
  /\ UNCHANGED <<tasks, seqs, stack>>

\* task.set_callbacks(s): the setter, then returns the task.
set_callbacks(t, s) ==
  /\ Idle
  /\ t \in tasks
  /\ s \in 1..Len(seqs)
  /\ LET r == Setter(cbref[t], s)
     IN  /\ cbref' = [cbref EXCEPT ![t] = r.ref]
         /\ lastop' = [op |-> "set_callbacks", task |-> t, arg |-> s,
                       before |-> cbref[t], beforeItems |-> Items(cbref[t]),
                       exc |-> r.exc]
  /\ Forget
  /\ UNCHANGED <<tasks, seqs, stack>>

\* ------------------------------------------------------------ Signature
\* Task.s(*args): Signature(task=self, args=args, kwargs=kwargs).
TaskS(t, args) == [task |-> t, args |-> args]

\* What class Signature defines.
SignatureAttrs == {"__init__", "__call__", "trace", "insert_arg",
                   "insert_kwarg"}

\* Python's a | b for instances of classes defining lattrs and rattrs (no
\* built-in support for |): TypeError unless type(a) defines __or__ or
\* type(b) defines __ror__.
BinaryOr(lattrs, rattrs) ==
  IF "__or__" \in lattrs \/ "__ror__" \in rattrs THEN NoExc ELSE TypeError

\* t1.s(*a1) | t2.s(*a2)
SignatureOr(t1, a1, t2, a2) ==
  /\ Idle
  /\ t1 \in tasks /\ t2 \in tasks
  /\ LET s1 == TaskS(t1, a1)
         s2 == TaskS(t2, a2)
     IN  lastop' = [NoOp EXCEPT !.op = "or", !.task = s1.task,
                                !.exc = BinaryOr(SignatureAttrs,
                                                 SignatureAttrs)]
  /\ Forget
  /\ UNCHANGED <<tasks, cbref, seqs, stack>>

\* ----------------------------------------------------------- invocations
Started == Len(history) + (IF outcome.state = "none" THEN 0 ELSE 1)

\* Where an invocation starts when the tracer announces the task only the
\* first time it is invoked.
FirstPhaseOnceOnly(traced) ==
  IF traced /\ history = << >> THEN "on_begin" ELSE "run"

\* Where an invocation starts: the tracer first notifies on_begin, a direct
\* call goes straight to run.
FirstPhase(traced) == IF traced THEN "on_begin" ELSE "run"

\* A top-level invocation begins: the caller's frame is pushed, and the
\* record of the previous invocation moves to the history.
Begin(t, how, traced, args) ==
  /\ Idle
  /\ t \in tasks
  /\ Started < MaxCalls
  /\ stack' = <<[task |-> t, how |-> how, traced |-> traced,
                 pc |-> FirstPhase(traced), i |-> 1,
                 args |-> args, ret |-> NoVal, exc |-> NoExc,
                 cbs |-> Items(cbref[t]), cbraised |-> FALSE,
                 phases |-> <<FirstPhase(traced)>>]>>
  /\ Forget
  /\ lastop' = NoOp
  /\ UNCHANGED <<tasks, cbref, seqs>>

\* Task.trace(args): make_tracer(self)(args=args, kwargs=kwargs).
TaskTrace(t, args) == Begin(t, "Task.trace", TRUE, args)

\* Task.__call__ going through the tracer.
TaskCallTraced(t, args) == Begin(t, "Task.__call__", TRUE, args)

\* Task.__call__(*args): self.run(*args, **kwargs).
TaskCall(t, args) == Begin(t, "Task.__call__", FALSE, args)

\* Signature.trace() of the Signature t.s(*args):
\* self.task.trace(args=self.args, kwargs=self.kwargs).
SignatureTrace(t, args) ==
  LET sg == TaskS(t, args)
  IN  Begin(sg.task, "Signature.trace", TRUE, sg.args)

\* Signature.__call__() of the Signature t.s(*args):
\* self.task(*self.args, **self.kwargs), that is Task.__call__, that is run.
SignatureCall(t, args) ==
  LET sg == TaskS(t, args)
  IN  Begin(sg.task, "Signature.__call__", FALSE, sg.args)

Top == stack[Len(stack)]

\* The invocation on top of the stack ends, returning ret or raising exc: to
\* the caller, or into the body of the task that called it (cbraised tells
\* that a notification of the invocation, or of one made by its body, failed).
End(f, ret, exc) ==
  IF Len(stack) = 1
  THEN /\ stack' = SubSeq(stack, 1, Len(stack) - 1)
       /\ outcome' = [state |-> IF exc = NoExc THEN "returned" ELSE "raised",
                      task |-> f.task, how |-> f.how, traced |-> f.traced,
                      args |-> f.args, ret |-> ret, exc |-> exc, cbs |-> f.cbs,
                      cbraised |-> f.cbraised, phases |-> f.phases]
  ELSE /\ stack' = [SubSeq(stack, 1, Len(stack) - 1) EXCEPT
                      ![Len(stack) - 1] =
                         [@ EXCEPT !.pc = "returned", !.ret = ret,
                                   !.exc = exc,
                                   !.cbraised = @ \/ f.cbraised]]
       /\ outcome' = outcome

Entry(cb, method, t, ret, exc) ==
  [cb |-> cb, method |-> method, task_id |-> TaskName(t), retval |-> ret,
   exc |-> exc]

\* The keyword arguments the tracer passes with each notification.
NotifyRet(f) == IF f.pc = "on_success" THEN f.ret ELSE NoVal
NotifyExc(f) == IF f.pc = "on_failure" THEN f.exc ELSE NoExc

\* The error the tracer raises once every on_failure is delivered, the
\* original error passed on as it is.
TaskFailedUnwrapped(exc) == exc

\* raise RuntimeError(f"Task {task_id} failed.") from exc
TaskFailed(exc) == <<"RuntimeError">> \o exc

\* What follows a notification phase that went through.
AfterPhase(f) ==
  CASE f.pc = "on_begin" -> "run"
    [] f.pc = "on_success" -> "return"
    [] f.pc = "on_failure" -> "raise"

\* Task.notify with the tracer turning what a callback raises into the
\* task-level error.
NotifyWrapping ==
  /\ stack # << >>
  /\ Top.pc \in {"on_begin", "on_success", "on_failure"}
  /\ LET f == Top
         cbs == Items(cbref[f.task])
     IN  /\ f.i <= Len(cbs)
         /\ IF cbs[f.i] \notin CallbackObjs
            THEN /\ End([f EXCEPT !.cbraised = TRUE], NoVal, AttributeError)
                 /\ log' = log
            ELSE \E raises \in (IF cbs[f.i] \in RaisingCbs THEN BOOLEAN ELSE {FALSE}) :
                   /\ log' = Append(log, Entry(cbs[f.i], f.pc, f.task,
                                               NotifyRet(f), NotifyExc(f)))
                   /\ IF raises
                      THEN End([f EXCEPT !.cbraised = TRUE], NoVal,
                               TaskFailed(CallbackError))
                      ELSE /\ stack' = [stack EXCEPT ![Len(stack)].i = f.i + 1]
                           /\ outcome' = outcome
  /\ lastop' = NoOp
  /\ UNCHANGED <<tasks, cbref, seqs, history>>

\* One iteration of Task.notify's loop, "for cb in self._callbacks:
\* getattr(cb, method_name)(**kwargs)": the attribute lookup fails on an
\* object without the method; the callback returns, or raises.
Notify ==
  /\ stack # << >>
  /\ Top.pc \in {"on_begin", "on_success", "on_failure"}
  /\ LET f == Top
         cbs == Items(cbref[f.task])
     IN  /\ f.i <= Len(cbs)
         /\ IF cbs[f.i] \notin CallbackObjs
            THEN /\ End([f EXCEPT !.cbraised = TRUE], NoVal, AttributeError)
                 /\ log' = log
            ELSE \E raises \in (IF cbs[f.i] \in RaisingCbs THEN BOOLEAN ELSE {FALSE}) :
                   /\ log' = Append(log, Entry(cbs[f.i], f.pc, f.task,
                                               NotifyRet(f), NotifyExc(f)))
                   /\ IF raises
                      THEN End([f EXCEPT !.cbraised = TRUE], NoVal, CallbackError)
                      ELSE /\ stack' = [stack EXCEPT ![Len(stack)].i = f.i + 1]
                           /\ outcome' = outcome
  /\ lastop' = NoOp
  /\ UNCHANGED <<tasks, cbref, seqs, history>>

\* Task.notify's loop is over: the tracer goes on to run the task, to return
\* retval, or to raise the task-level error.
NotifyDone ==
  /\ stack # << >>
  /\ Top.pc \in {"on_begin", "on_success", "on_failure"}
  /\ LET f == Top
     IN  /\ f.i > Len(Items(cbref[f.task]))
         /\ CASE AfterPhase(f) = "run" ->
                   /\ stack' = [stack EXCEPT ![Len(stack)] =
                                  [f EXCEPT !.pc = "run",
                                            !.phases = Append(@, "run")]]
                   /\ outcome' = outcome
              [] AfterPhase(f) = "return" -> End(f, f.ret, NoExc)
              [] AfterPhase(f) = "raise" -> End(f, NoVal, TaskFailed(f.exc))
  /\ lastop' = NoOp
  /\ UNCHANGED <<tasks, cbref, seqs, log, history>>

\* The tracer's phase after the task ran, r being what run did: on_failure
\* whatever run did.
AfterRunAlwaysFails(r) == "on_failure"

\* The tracer's phase after the task ran, r being what run did: "except
\* Exception" catches the Exception subclasses only.
AfterRun(r) ==
  IF r.exc = NoExc THEN "on_success"
  ELSE IF IsException(r.exc) THEN "on_failure" ELSE "propagate"

\* retval = task(*args, **kwargs) in the tracer, or the direct call.
RunTask ==
  /\ stack # << >>
  /\ Top.pc = "run"
  /\ Top.task \in Tasks
  /\ LET f == Top
         r == Run(f.task, f.args)
     IN  /\ log' = Append(log, Entry("", "run", f.task, r.ret, r.exc))
         /\ IF ~f.traced \/ AfterRun(r) = "propagate"
            THEN End(f, r.ret, r.exc)
            ELSE /\ stack' = [stack EXCEPT ![Len(stack)] =
                                [f EXCEPT !.pc = AfterRun(r), !.i = 1,
                                          !.ret = r.ret, !.exc = r.exc,
                                          !.phases = Append(@, AfterRun(r))]]
                 /\ outcome' = outcome
  /\ lastop' = NoOp
  /\ UNCHANGED <<tasks, cbref, seqs, history>>

\* ---------------------------------------------------------- nested calls
\* task_from_callable(fun_c), once the task its body calls exists.
ConstructNesting(t) ==
  /\ Idle
  /\ t \notin tasks
  /\ Inner(t) \in tasks
  /\ tasks' = tasks \cup {t}
  /\ cbref' = [cbref EXCEPT ![t] = EmptyTuple]
  /\ lastop' = [NoOp EXCEPT !.op = "construct", !.task = t]
  /\ Forget
  /\ UNCHANGED <<seqs, stack>>

\* The body of a nesting task calling its inner task without the tracer.
CallNestedDirect ==
  /\ stack # << >>
  /\ Top.pc = "run"
  /\ Top.task \in NestingTasks
  /\ Len(Top.args) = 1
  /\ stack' = Append([stack EXCEPT ![Len(stack)].pc = "called"],
                     [task |-> Inner(Top.task), how |-> "Task.__call__",
                      traced |-> FALSE, pc |-> FirstPhase(FALSE), i |-> 1,
                      args |-> Top.args, ret |-> NoVal, exc |-> NoExc,
                      cbs |-> Items(cbref[Inner(Top.task)]),
                      cbraised |-> FALSE,
                      phases |-> <<FirstPhase(FALSE)>>])
  /\ lastop' = NoOp
  /\ UNCHANGED <<tasks, cbref, seqs, log, outcome, history>>

\* The tracer (or the direct call) runs a nesting task: its body, entered
\* with its one argument, makes the traced call of the inner task,
\* Task.trace(args=(x,)): a new invocation on top of this one.
CallNested ==
  /\ stack # << >>
  /\ Top.pc = "run"
  /\ Top.task \in NestingTasks
  /\ Len(Top.args) = 1
  /\ stack' = Append([stack EXCEPT ![Len(stack)].pc = "called"],
                     [task |-> Inner(Top.task), how |-> "Task.trace",
                      traced |-> TRUE, pc |-> FirstPhase(TRUE), i |-> 1,
                      args |-> Top.args, ret |-> NoVal, exc |-> NoExc,
                      cbs |-> Items(cbref[Inner(Top.task)]),
                      cbraised |-> FALSE,
                      phases |-> <<FirstPhase(TRUE)>>])
  /\ lastop' = NoOp
  /\ UNCHANGED <<tasks, cbref, seqs, log, outcome, history>>

\* What the body of a nesting task gave: what the call it made returned or
\* raised ("returned"), or TypeError when it was not given its one argument.
BodyResult(f) ==
  IF f.pc = "returned" THEN [ret |-> f.ret, exc |-> f.exc]
  ELSE [ret |-> NoVal, exc |-> TypeError]

\* The body of a nesting task is over: the tracer goes on as after any run.
BodyReturns ==
  /\ stack # << >>
  /\ Top.task \in NestingTasks
  /\ \/ Top.pc = "returned"
     \/ Top.pc = "run" /\ Len(Top.args) # 1
  /\ LET f == Top
         r == BodyResult(f)
     IN  /\ log' = Append(log, Entry("", "run", f.task, r.ret, r.exc))
         /\ IF ~f.traced \/ AfterRun(r) = "propagate"
            THEN End(f, r.ret, r.exc)
            ELSE /\ stack' = [stack EXCEPT ![Len(stack)] =
                                [f EXCEPT !.pc = AfterRun(r), !.i = 1,
                                          !.ret = r.ret, !.exc = r.exc,
                                          !.phases = Append(@, AfterRun(r))]]
                 /\ outcome' = outcome
  /\ lastop' = NoOp
  /\ UNCHANGED <<tasks, cbref, seqs, history>>

NextNest ==
  /\ \/ \E t \in NestingTasks : Construct(Inner(t))
     \/ \E t \in NestingTasks : ConstructNesting(t)
     \/ \E items \in SeqsUpTo(Objs, MaxLen), m \in BOOLEAN : NewSeq(items, m)
     \/ \E t \in AllTasks, s \in 1..(1 + MaxSeqs) : AssignCallbacks(t, s)
     \/ \E t \in NestingTasks, a \in SeqsUpTo(ArgVals, MaxArgs) :
          TaskTrace(t, a)
     \/ Notify
     \/ NotifyDone
     \/ RunTask
     \/ CallNested
     \/ BodyReturns
  /\ UNCHANGED opsVars
  /\ UNCHANGED cfgVars

SpecNest == Init /\ [][NextNest]_vars

\* ------------------------------------------------------------------ Next
Next ==
  /\ \/ \E t \in Tasks : Construct(t)
     \/ \E t \in Tasks, s \in 1..(1 + MaxSeqs) : Decorate(t, s)
     \/ \E items \in SeqsUpTo(Objs, MaxLen), m \in BOOLEAN : NewSeq(items, m)
     \/ \E s \in 1..(1 + MaxSeqs), o \in Objs : ListAppend(s, o)
     \/ \E t \in Tasks, s \in 1..(1 + MaxSeqs) : AssignCallbacks(t, s)
     \/ \E t \in Tasks, s \in 1..(1 + MaxSeqs) : set_callbacks(t, s)
     \/ \E t \in Tasks, a \in SeqsUpTo(ArgVals, MaxArgs) : TaskTrace(t, a)
     \/ \E t \in Tasks, a \in SeqsUpTo(ArgVals, MaxArgs) : TaskCall(t, a)
     \/ \E t \in Tasks, a \in SeqsUpTo(ArgVals, MaxArgs) : SignatureTrace(t, a)
     \/ \E t \in Tasks, a \in SeqsUpTo(ArgVals, MaxArgs) : SignatureCall(t, a)
     \/ \E t1 \in Tasks, a1 \in SeqsUpTo(ArgVals, MaxArgs) :
          \E t2 \in Tasks, a2 \in SeqsUpTo(ArgVals, MaxArgs) :
            SignatureOr(t1, a1, t2, a2)
     \/ Notify
     \/ NotifyDone
     \/ RunTask
  /\ UNCHANGED opsVars
  /\ UNCHANGED cfgVars

Spec == Init /\ [][Next]_vars

\* ------------------------------------------------------------ properties
\* The notifications of one phase to the callbacks cbs, in attachment order.
Notes(cbs, method, t, ret, exc) ==
  [i \in 1..Len(cbs) |-> Entry(cbs[i], method, t, ret, exc)]

RunEntry(t, r) == Entry("", "run", t, r.ret, r.exc)

\* A traced invocation just ended, its notifications all delivered to
\* callbacks that returned.
EndedTraced ==
  /\ outcome.state # "none"
  /\ outcome.traced
  /\ \A i \in 1..Len(outcome.cbs) : outcome.cbs[i] \in CallbackObjs
  /\ ~outcome.cbraised

\* C1: a traced call of a task whose run returns v, with callbacks that do not
\* raise, returns v, and what happened is exactly: on_begin to every callback
\* in attachment order, the run, on_success (task_id = the task's name,
\* retval = v) to every callback in attachment order; no on_failure.
C1_SuccessPath ==
  LET r == Fun(outcome.task, outcome.args)
  IN  (EndedTraced /\ r.exc = NoExc) =>
        /\ outcome.state = "returned"
        /\ outcome.ret = r.ret
        /\ log = Notes(outcome.cbs, "on_begin", outcome.task, NoVal, NoExc)
                 \o <<RunEntry(outcome.task, r)>>
                 \o Notes(outcome.cbs, "on_success", outcome.task, r.ret, NoExc)
        /\ \A j \in 1..Len(log) : log[j].method # "on_failure"

C1_Witness ==
  /\ EndedTraced
  /\ outcome.state = "returned"
  /\ outcome.cbs = <<"cb2", "cb1">>
  /\ Len(log) = 5

\* C2: a traced call of a task whose run raises the error e, with callbacks
\* that do not raise, delivers on_begin to every callback in order, runs, then
\* delivers on_failure carrying e to every callback in order and on_success to
\* none, and ends raising a new error whose cause is e.
C2_FailurePath ==
  LET r == Fun(outcome.task, outcome.args)
  IN  (EndedTraced /\ IsException(r.exc)) =>
        /\ outcome.state = "raised"
        /\ outcome.exc # r.exc
        /\ Tail(outcome.exc) = r.exc
        /\ log = Notes(outcome.cbs, "on_begin", outcome.task, NoVal, NoExc)
                 \o <<RunEntry(outcome.task, r)>>
                 \o Notes(outcome.cbs, "on_failure", outcome.task, NoVal, r.exc)
        /\ \A j \in 1..Len(log) : log[j].method # "on_success"

C2_Witness ==
  /\ EndedTraced
  /\ outcome.state = "raised"
  /\ outcome.exc = <<"RuntimeError", "ZeroDivisionError">>
  /\ outcome.cbs = <<"cb1", "cb2">>
  /\ Len(log) = 5

\* C3: invoking (calling) a Signature obtained from Task.s delivers on_begin
\* and then on_success or on_failure to every callback attached to the task.
C3_SignatureCallNotifies ==
  (outcome.state # "none" /\ outcome.how = "Signature.__call__") =>
    \A i \in 1..Len(outcome.cbs) :
      outcome.cbs[i] \in CallbackObjs =>
        /\ \E j \in 1..Len(log) :
             log[j].cb = outcome.cbs[i] /\ log[j].method = "on_begin"
        /\ ~outcome.cbraised =>
             \E j \in 1..Len(log) :
               /\ log[j].cb = outcome.cbs[i]
               /\ log[j].method \in {"on_success", "on_failure"}

\* C4: a callbacks assignment (the setter, set_callbacks) of a sequence with a
\* non-conforming element raises TypeError and leaves the task's callbacks
\* what they were; of a sequence of conforming elements, it makes them the
\* given sequence.
C4_SetCallbacksAllOrNothing ==
  lastop.op \in {"assign", "set_callbacks"} =>
    LET given == Items(lastop.arg)
        now == cbref[lastop.task]
    IN  IF \E i \in 1..Len(given) : given[i] \notin CallbackObjs
        THEN /\ lastop.exc = TypeError
             /\ now = lastop.before
             /\ Items(now) = lastop.beforeItems
        ELSE /\ lastop.exc = NoExc
             /\ now = lastop.arg
             /\ Items(now) = given

\* A failing set_callbacks of a sequence whose first element conforms.
C4_Witness ==
  /\ lastop.op = "set_callbacks"
  /\ lastop.exc = TypeError
  /\ Items(lastop.arg) = <<"cb1", "obj">>
  /\ lastop.before # lastop.arg
  /\ Items(cbref[lastop.task]) = << >>

\* C5: in every reachable state every element of every task's callbacks
\* satisfies the Callback contract.
C5_CallbacksConform ==
  \A t \in tasks :
    \A i \in 1..Len(Items(cbref[t])) : Items(cbref[t])[i] \in CallbackObjs

\* C13: s1 | s2 of two Signatures (from Task.s or not) gives a Signature, the
\* composition, which (s1 | s2) | s3 composes further and whose invocation
\* returns the node carrying s3(s2(s1(..))): composing does not raise.
C13_CompositionChains ==
  lastop.op = "or" => lastop.exc = NoExc

\* C14: a direct call of a task (Task.__call__, that is run) returns what the
\* wrapped callable returns for the arguments given or raises the very error
\* it raises, and notifies no callback: the run is all that happens.
C14_DirectCall ==
  LET r == Fun(outcome.task, outcome.args)
  IN  (outcome.state # "none" /\ outcome.how = "Task.__call__") =>
        /\ outcome.ret = r.ret
        /\ outcome.exc = r.exc
        /\ log = <<RunEntry(outcome.task, r)>>

\* A direct call, of a task with two callbacks, that raised.
C14_Witness ==
  /\ outcome.how = "Task.__call__"
  /\ outcome.state = "raised"
  /\ outcome.exc = <<"ZeroDivisionError">>
  /\ outcome.cbs = <<"cb1", "cb2">>
  /\ Len(log) = 1

\* What a traced invocation of t with callbacks cbs did before it began to
\* notify method, r being what run did.
BeforePhase(cbs, method, t, r) ==
  IF method = "on_begin" THEN << >>
  ELSE Notes(cbs, "on_begin", t, NoVal, NoExc) \o <<RunEntry(t, r)>>

\* C17: a traced invocation in which a callback raised while being notified
\* ended there: the k-th callback, the one that raised, is the last to be
\* notified (what happened is the phases before in full, then that
\* notification to the first k callbacks: so no run after a raise in
\* on_begin, no on_failure after a raise in on_success), nothing is returned,
\* and the caller gets the callback's exception itself, not the task-level
\* error.
C17_CallbackRaiseAborts ==
  LET r == Fun(outcome.task, outcome.args)
      p == outcome.phases[Len(outcome.phases)]
  IN  (/\ outcome.state # "none" /\ outcome.traced /\ outcome.cbraised
       /\ \A i \in 1..Len(outcome.cbs) : outcome.cbs[i] \in CallbackObjs) =>
        /\ outcome.state = "raised"
        /\ outcome.exc = CallbackError
        /\ outcome.ret = NoVal
        /\ p \in {"on_begin", "on_success", "on_failure"}
        /\ p = "on_success" => r.exc = NoExc
        /\ p = "on_failure" => IsException(r.exc)
        /\ \E k \in 1..Len(outcome.cbs) :
             /\ outcome.cbs[k] \in RaisingCbs
             /\ log = BeforePhase(outcome.cbs, p, outcome.task, r)
                      \o SubSeq(Notes(outcome.cbs, p, outcome.task,
                                      IF p = "on_success" THEN r.ret ELSE NoVal,
                                      IF p = "on_failure" THEN r.exc ELSE NoExc),
                                1, k)

\* The first of two callbacks raised in on_failure: the second was notified
\* of on_begin only.
C17_Witness ==
  /\ outcome.traced /\ outcome.cbraised
  /\ outcome.cbs = <<"cb2", "cb1">>
  /\ outcome.phases = <<"on_begin", "run", "on_failure">>
  /\ outcome.exc = CallbackError
  /\ Len(log) = 4

\* C18: in a traced call of a task whose body makes a traced call of another
\* (ended or in progress) every on_begin of the outer task comes before, and
\* its run's end and every terminal notification of it after, everything the
\* inner invocation does; and when no notification fails, what happened is
\* on_begin(outer), on_begin(inner), the inner run, the inner terminal
\* notifications, the outer run's end and the outer terminal notifications:
\* on_success with the inner value all along, or, the inner body raising e,
\* on_failure(inner, e) then on_failure(outer, err) with err the inner task's
\* error (cause e), the caller getting an error whose cause is err.
C18_NestedBrackets ==
  LET top == IF stack # << >> THEN stack[1].task ELSE outcome.task
      in == Inner(top)
      icbs == Items(cbref[in])
      r == Fun(in, outcome.args)
      err == TaskFailed(r.exc)
  IN  top \in NestingTasks =>
        /\ \A i \in 1..Len(log) : \A j \in 1..Len(log) :
             (log[i].task_id = TaskName(top) /\ log[j].task_id = TaskName(in)) =>
               IF log[i].method = "on_begin" THEN i < j ELSE j < i
        /\ (/\ stack = << >> /\ outcome.traced /\ ~outcome.cbraised
            /\ Len(outcome.args) = 1 /\ r.exc = NoExc) =>
             /\ outcome.state = "returned" /\ outcome.ret = r.ret
             /\ log = Notes(outcome.cbs, "on_begin", top, NoVal, NoExc)
                      \o Notes(icbs, "on_begin", in, NoVal, NoExc)
                      \o <<RunEntry(in, r)>>
                      \o Notes(icbs, "on_success", in, r.ret, NoExc)
                      \o <<RunEntry(top, r)>>
                      \o Notes(outcome.cbs, "on_success", top, r.ret, NoExc)
        /\ (/\ stack = << >> /\ outcome.traced /\ ~outcome.cbraised
            /\ Len(outcome.args) = 1 /\ IsException(r.exc)) =>
             /\ outcome.state = "raised"
             /\ outcome.exc = TaskFailed(err)
             /\ log = Notes(outcome.cbs, "on_begin", top, NoVal, NoExc)
                      \o Notes(icbs, "on_begin", in, NoVal, NoExc)
                      \o <<RunEntry(in, r)>>
                      \o Notes(icbs, "on_failure", in, NoVal, r.exc)
                      \o <<RunEntry(top, [ret |-> NoVal, exc |-> err])>>
                      \o Notes(outcome.cbs, "on_failure", top, NoVal, err)

\* A traced call of C, with callbacks on both tasks, whose inner body raised.
C18_Witness ==
  /\ stack = << >>
  /\ outcome.task \in NestingTasks
  /\ outcome.traced /\ ~outcome.cbraised
  /\ outcome.cbs = <<"cb1", "cb2">>
  /\ Items(cbref[Inner(outcome.task)]) = <<"cb1", "cb2">>
  /\ outcome.exc = <<"RuntimeError", "RuntimeError", "ZeroDivisionError">>
  /\ Len(log) = 10

IsPrefix(p, q) == Len(p) <= Len(q) /\ SubSeq(q, 1, Len(p)) = p

SuccessPhases == <<"on_begin", "run", "on_success">>
FailurePhases == <<"on_begin", "run", "on_failure">>

\* The phases a traced invocation went through, in progress or just ended.
TracedPhases ==
  IF stack # << >> /\ Top.traced THEN <<Top.phases>>
  ELSE IF outcome.state # "none" /\ outcome.traced THEN <<outcome.phases>>
  ELSE << >>

\* C6 as stated: every traced invocation that ended went PENDING -> RUNNING ->
\* exactly one of SUCCEEDED, FAILED.
C6_AlwaysTerminalState ==
  (outcome.state # "none" /\ outcome.traced) =>
    outcome.phases \in {SuccessPhases, FailurePhases}

\* C6 as amended: whatever the earlier invocations did, a traced invocation
\* goes through a prefix of PENDING -> RUNNING -> SUCCEEDED or of PENDING ->
\* RUNNING -> FAILED (so never both, never RUNNING again after a terminal
\* state, and on_begin first); no notification follows a terminal one but of
\* the same kind; and when no notification raises and run returns or raises an
\* Exception, it ends SUCCEEDED if run returned and FAILED if it raised.
C6_StateMachine ==
  /\ \A k \in 1..Len(TracedPhases) :
       \/ IsPrefix(TracedPhases[k], SuccessPhases)
       \/ IsPrefix(TracedPhases[k], FailurePhases)
  /\ \A j \in 1..Len(log) : \A k \in (j + 1)..Len(log) :
       log[j].method \in {"on_success", "on_failure"} =>
         log[k].method = log[j].method
  /\ LET r == Fun(outcome.task, outcome.args)
     IN  (outcome.state # "none" /\ outcome.traced /\ ~outcome.cbraised
            /\ (r.exc = NoExc \/ IsException(r.exc))) =>
           outcome.phases = IF r.exc = NoExc THEN SuccessPhases
                                             ELSE FailurePhases

\* A traced invocation that succeeded after an earlier one of the same task
\* failed.
C6_Witness ==
  /\ outcome.state = "returned"
  /\ outcome.traced
  /\ outcome.phases = SuccessPhases
  /\ outcome.cbs # << >>
  /\ history # << >>
  /\ history[1] = [task |-> outcome.task, state |-> "raised"]

\* ====================================================== the evaluator, ops.py
\* ----------------------------------------------------------------- payloads
\* A payload is an int, a tuple of ints or one of the callables below.
PInt(n) == [k |-> "int", n |-> n, t |-> << >>, f |-> ""]
PTup(t) == [k |-> "tuple", n |-> 0, t |-> t, f |-> ""]
PFn(f) == [k |-> "fn", n |-> 0, t |-> << >>, f |-> f]

\* NOp.arg's default, the empty tuple.
DefaultArg == PTup(<< >>)

\* The callables of the universe, as in the repository's tests:
\*   add = lambda x, y: x + y      mul = lambda x, y: x * y
\*   double = lambda x: 2 * x      triple = lambda x: 3 * x
\* and one that returns a callable:
\*   tripler = lambda x: triple
Arity(f) == IF f \in {"add", "mul"} THEN 2 ELSE 1

\* t repeated n times (sequence repetition, n * t).
Repeat(t, n) ==
  IF n <= 0 \/ t = << >> THEN << >>
  ELSE [i \in 1..(n * Len(t)) |-> t[((i - 1) % Len(t)) + 1]]

Val(p) == [val |-> p, exc |-> NoExc]
Raise(e) == [val |-> DefaultArg, exc |-> e]

\* Python's a + b.
PyAdd(a, b) ==
  CASE a.k = "int" /\ b.k = "int" -> Val(PInt(a.n + b.n))
    [] a.k = "tuple" /\ b.k = "tuple" -> Val(PTup(a.t \o b.t))
    [] OTHER -> Raise(TypeError)

\* Python's a * b.
PyMul(a, b) ==
  CASE a.k = "int" /\ b.k = "int" -> Val(PInt(a.n * b.n))
    [] a.k = "int" /\ b.k = "tuple" -> Val(PTup(Repeat(b.t, a.n)))
    [] a.k = "tuple" /\ b.k = "int" -> Val(PTup(Repeat(a.t, b.n)))
    [] OTHER -> Raise(TypeError)

\* The body of the callable f on the arguments args (of the right number).
Body(f, args) ==
  CASE f = "add" -> PyAdd(args[1], args[2])
    [] f = "mul" -> PyMul(args[1], args[2])
    [] f = "double" -> PyMul(PInt(2), args[1])
    [] f = "triple" -> PyMul(PInt(3), args[1])
    [] f = "tripler" -> Val(PFn("triple"))

\* Python's p(*args): TypeError when p is not callable or the number of
\* arguments is not what it takes; entered tells whether the body was entered.
\* Entered is the call once the body ran, b what the body gave.  With each
\* callable entered goes where it was entered from: at, the path (input
\* positions from the node evaluated) of the node whose operation made the
\* call, and input, the input of that node whose payload the callable is (0:
\* the node's own payload).
Entered(p, args, b) ==
  [val |-> b.val, exc |-> b.exc,
   entered |-> <<[f |-> p.f, args |-> args, at |-> << >>, input |-> 0]>>]

\* p(*args) taking a payload that is not callable for the value it stands
\* for, and a callable given too few or too many arguments as giving none.
InvokeLenient(p, args) ==
  IF p.k # "fn" THEN [val |-> p, exc |-> NoExc, entered |-> << >>]
  ELSE IF Len(args) # Arity(p.f)
       THEN [val |-> DefaultArg, exc |-> NoExc, entered |-> << >>]
  ELSE Entered(p, args, Body(p.f, args))

Invoke(p, args) ==
  IF p.k # "fn" \/ Len(args) # Arity(p.f)
  THEN [val |-> DefaultArg, exc |-> TypeError, entered |-> << >>]
  ELSE Entered(p, args, Body(p.f, args))

\* -------------------------------------------------------------------- nodes
\* NOp(op, arg, src): src is None (nosrc) or a list of nodes; result is None.
\* A node of the heap is named by its index; 0 stands for None.
NOp(op, arg, nosrc, src) ==
  [op |-> op, arg |-> arg, nosrc |-> nosrc, src |-> src, result |-> 0]

\* NOp.is_leaf telling a leaf by "src is None" alone.
is_leaf_none_only(n) == n.nosrc

\* NOp.is_leaf: self.src is None or not self.src.
is_leaf(n) == n.nosrc \/ n.src = << >>

\* What an operation function or an evaluation gives: the heap after it, the
\* node returned (0: None), the callables entered in order, the exception.
Res(h, res, cs, exc) == [heap |-> h, res |-> res, calls |-> cs, exc |-> exc]

Alloc(h, n) == Append(h, n)

\* void: returns None.
void(h, n) == Res(h, 0, << >>, NoExc)

\* const: returns NOp(Ops.VOID).
const(h, n) ==
  Res(Alloc(h, NOp("VOID", DefaultArg, TRUE, << >>)), Len(h) + 1, << >>, NoExc)

\* (s.arg for s in src): AttributeError at the first s that is None,
\* TypeError when src itself is None.
SrcArgs(h, n) ==
  IF n.nosrc THEN Raise(TypeError)
  ELSE IF \E i \in 1..Len(n.src) : n.src[i] = 0 THEN Raise(AttributeError)
  ELSE [val |-> [i \in 1..Len(n.src) |-> h[n.src[i]].arg], exc |-> NoExc]

\* The node call returns, r being what arg(*...) did: NOp(op, value) with op
\* left at its default, Ops.VOID.
CallNode(h, r) ==
  IF r.exc # NoExc THEN Res(h, 0, r.entered, r.exc)
  ELSE Res(Alloc(h, NOp("VOID", r.val, TRUE, << >>)), Len(h) + 1, r.entered,
           NoExc)

\* call, a being the arguments (s.arg for s in src).
CallArgs(h, n, a) ==
  IF a.exc # NoExc THEN Res(h, 0, << >>, a.exc)
  ELSE CallNode(h, Invoke(n.arg, a.val))

\* call: NOp(op, arg(*(s.arg for s in src))).
call(h, n) == CallArgs(h, n, SrcArgs(h, n))

\* One step of compose's reduce, lambda x, fxn: fxn(x): x is passed as the
\* one argument, whatever it is.
Stage(fxn, x) == Invoke(fxn, <<x>>)

\* reduce(lambda x, fxn: fxn(x), (s.arg for s in src), initial_value), from
\* the i-th input on with x the accumulator and cs the callables entered;
\* Reduced goes on from what the i-th stage, r, did.
RECURSIVE Reduce(_, _, _, _, _)
OfInput(i, cs) == [j \in 1..Len(cs) |-> [cs[j] EXCEPT !.input = i]]

Reduced(h, src, i, x, cs, r) ==
  IF r.exc # NoExc
  THEN [val |-> x, exc |-> r.exc, calls |-> cs \o OfInput(i, r.entered)]
  ELSE Reduce(h, src, i + 1, r.val, cs \o OfInput(i, r.entered))

Reduce(h, src, i, x, cs) ==
  IF i > Len(src) THEN [val |-> x, exc |-> NoExc, calls |-> cs]
  ELSE IF src[i] = 0 THEN [val |-> x, exc |-> AttributeError, calls |-> cs]
  ELSE Reduced(h, src, i, x, cs, Stage(h[src[i]].arg, x))

\* The node compose returns, r being what the fold did: NOp(src[-1].op, retval).
ComposeNode(h, n, r) ==
  IF r.exc # NoExc THEN Res(h, 0, r.calls, r.exc)
  ELSE IF n.src = << >> THEN Res(h, 0, r.calls, <<"IndexError">>)
  ELSE Res(Alloc(h, NOp(h[n.src[Len(n.src)]].op, r.val, TRUE, << >>)),
           Len(h) + 1, r.calls, NoExc)

\* compose: the fold from arg over src, then the node.
compose(h, n) ==
  IF n.nosrc THEN Res(h, 0, << >>, TypeError)
  ELSE ComposeNode(h, n, Reduce(h, n.src, 1, n.arg, << >>))

\* _OP_TO_FXN[op](arg, src)
OpToFxn(h, n) ==
  CASE n.op = "VOID" -> void(h, n)
    [] n.op = "CONST" -> const(h, n)
    [] n.op = "CALL" -> call(h, n)
    [] n.op = "COMPOSE" -> compose(h, n)

\* self.result = r, r being what the operation function gave; return it.
Memoize(id, r) ==
  IF r.exc # NoExc THEN r
  ELSE Res([r.heap EXCEPT ![id].result = r.res], r.res, r.calls, NoExc)

\* NOp.eval of node id: computes and stores self.result when it is None,
\* returns self.result.
NOpEval(h, id) ==
  IF h[id].result # 0 THEN Res(h, h[id].result, << >>, NoExc)
  ELSE Memoize(id, OpToFxn(h, h[id]))

\* recursive_eval(n): a leaf is returned as it is; otherwise the inputs are
\* evaluated left to right (EvalSrc: the list comprehension from the i-th
\* input on, acc the results so far), a new node NOp(n.op, n.arg, new_src) is
\* built (EvalNew) and its eval() returned.
RECURSIVE recursive_eval(_, _)
RECURSIVE EvalSrc(_, _, _, _, _)
Joined(cs, r) == Res(r.heap, r.res, cs \o r.calls, r.exc)

EvalNew(n, e) ==
  IF e.exc # NoExc THEN Res(e.heap, 0, e.calls, e.exc)
  ELSE Joined(e.calls,
              NOpEval(Alloc(e.heap, NOp(n.op, n.arg, FALSE, e.res)),
                      Len(e.heap) + 1))

Under(i, cs) == [j \in 1..Len(cs) |-> [cs[j] EXCEPT !.at = <<i>> \o @]]

\* The list comprehension taking its inputs last to first.
EvalNextReversed(src, i, acc, cs, r) ==
  IF r.exc # NoExc THEN Res(r.heap, acc, Under(i, r.calls) \o cs, r.exc)
  ELSE EvalSrc(r.heap, src, i + 1, Append(acc, r.res),
               Under(i, r.calls) \o cs)

EvalNext(src, i, acc, cs, r) ==
  IF r.exc # NoExc THEN Res(r.heap, acc, cs \o Under(i, r.calls), r.exc)
  ELSE EvalSrc(r.heap, src, i + 1, Append(acc, r.res),
               cs \o Under(i, r.calls))

\* The list comprehension evaluating a node met again among the inputs once:
\* the result of its first occurrence is taken again.
EvalSrcShared(h, src, i, acc, cs) ==
  IF i > Len(src) THEN Res(h, acc, cs, NoExc)
  ELSE IF \E j \in 1..(i - 1) : src[j] = src[i]
       THEN EvalSrc(h, src, i + 1,
                    Append(acc, acc[CHOOSE j \in 1..(i - 1) : src[j] = src[i]]),
                    cs)
  ELSE EvalNext(src, i, acc, cs, recursive_eval(h, src[i]))

EvalSrc(h, src, i, acc, cs) ==
  IF i > Len(src) THEN Res(h, acc, cs, NoExc)
  ELSE EvalNext(src, i, acc, cs, recursive_eval(h, src[i]))

recursive_eval(h, id) ==
  IF is_leaf(h[id]) THEN Res(h, id, << >>, NoExc)
  ELSE EvalNew(h[id], EvalSrc(h, h[id].src, 1, << >>, << >>))

\* --------------------------------------------------------------- the caller
\* The leaves and the inner nodes the caller builds: operation, payload, and
\* for a leaf whether src is None (or else the empty list).
LeafKinds ==
  { <<"CONST", PInt(2), TRUE>>, <<"CONST", PInt(3), TRUE>>,
    <<"CALL", PFn("double"), TRUE>>, <<"CALL", PFn("triple"), TRUE>>,
    <<"VOID", DefaultArg, TRUE>>, <<"COMPOSE", PInt(10), FALSE>> }

InnerKinds ==
  { <<"CALL", PFn("add")>>, <<"CALL", PFn("mul")>>, <<"CALL", PFn("double")>>,
    <<"CALL", PFn("tripler")>>, <<"CALL", PInt(10)>>, <<"COMPOSE", PInt(10)>>, <<"COMPOSE", PTup(<<5>>)>>,
    <<"VOID", DefaultArg>> }

Leaves == {i \in 1..Len(nodes) : is_leaf(nodes[i])}

InitOps ==
  /\ InitTask
  /\ InitCfgIdle
  /\ nodes = << >>
  /\ evalres = << >>
  /\ calls = << >>

\* NOp(op, arg) or NOp(op, arg, src=[]).  Node ids are the order of
\* construction; the caller builds the leaves of a graph first.
NewLeaf(kind) ==
  /\ evalres = << >>
  /\ Leaves = 1..Len(nodes)
  /\ Len(nodes) < MaxLeaves
  /\ nodes' = Alloc(nodes, NOp(kind[1], kind[2], kind[3], << >>))
  /\ UNCHANGED <<evalres, calls>>

\* NOp(op, arg, src=[...]) over nodes built before.  A node that the root
\* (the node built last) does not reach plays no part in its evaluation: an
\* inner node built after another takes the node built before it as an input.
NewInner(kind, src) ==
  /\ evalres = << >>
  /\ Len(nodes) - Cardinality(Leaves) < MaxInner
  /\ src # << >>
  /\ \A i \in 1..Len(src) : src[i] \in 1..Len(nodes)
  /\ Leaves # 1..Len(nodes) => \E i \in 1..Len(src) : src[i] = Len(nodes)
  /\ nodes' = Alloc(nodes, NOp(kind[1], kind[2], FALSE, src))
  /\ UNCHANGED <<evalres, calls>>

\* The state once the evaluation how of root gave r.
Evaluated(how, root, r) ==
  /\ nodes' = r.heap
  /\ calls' = r.calls
  /\ evalres' = Append(evalres, [how |-> how, root |-> root, res |-> r.res,
                                 exc |-> r.exc, calls |-> r.calls,
                                 before |-> nodes])

\* The node the caller evaluates: the one it built last.
Root == IF evalres = << >> THEN Len(nodes) ELSE evalres[1].root

\* root.eval(), called directly.
NodeEval ==
  /\ nodes # << >>
  /\ evalres = << >>
  /\ Evaluated("eval", Root, NOpEval(nodes, Root))

\* recursive_eval(root), once or again.
RecursiveEval ==
  /\ nodes # << >>
  /\ Cardinality({i \in 1..Len(evalres) :
                    evalres[i].how = "recursive_eval"}) < MaxEvals
  /\ Evaluated("recursive_eval", Root, recursive_eval(nodes, Root))

NextOps ==
  /\ \/ \E kind \in LeafKinds : NewLeaf(kind)
     \/ \E kind \in InnerKinds :
          \E src \in SeqsUpTo(1..(MaxLeaves + MaxInner), MaxSrc) :
            NewInner(kind, src)
     \/ NodeEval
     \/ RecursiveEval
  /\ UNCHANGED taskVars
  /\ UNCHANGED cfgVars

SpecOps == InitOps /\ [][NextOps]_vars

\* ------------------------------------------------- properties, evaluator
\* The evaluation that just ended.
LastEval == evalres[Len(evalres)]

\* The node evaluated, as it was before the evaluation.
RootBefore == LastEval.before[LastEval.root]

\* A recursive_eval of a node with inputs just returned a node.
EvalReturned(op) ==
  /\ evalres # << >>
  /\ LastEval.how = "recursive_eval"
  /\ RootBefore.op = op
  /\ ~RootBefore.nosrc /\ RootBefore.src # << >>
  /\ LastEval.exc = NoExc

\* C7: recursive_eval of a leaf (inputs empty or absent), whatever its tag and
\* payload, returns the leaf itself, enters no callable and leaves the heap,
\* the leaf's memoized result included, as it was.
C7_LeafIdentity ==
  (/\ evalres # << >>
   /\ LastEval.how = "recursive_eval"
   /\ (RootBefore.nosrc \/ Len(RootBefore.src) = 0)) =>
    /\ LastEval.exc = NoExc
    /\ LastEval.res = LastEval.root
    /\ calls = << >>
    /\ nodes = LastEval.before

\* recursive_eval of a leaf whose eval() had already memoized a result.
C7_Witness ==
  /\ Len(evalres) = 2
  /\ LastEval.how = "recursive_eval"
  /\ RootBefore.op = "CONST"
  /\ RootBefore.nosrc
  /\ RootBefore.result # 0
  /\ LastEval.res = LastEval.root

\* C8: recursive_eval of a CALL node whose payload f is invocable returns a
\* CONST-tagged node whose payload is f(a1, .., ak), the ai the payloads of the
\* evaluated inputs in input order.
C8_CallYieldsConst ==
  EvalReturned("CALL") =>
    /\ LastEval.res # 0
    /\ nodes[LastEval.res].op = "CONST"
    /\ calls # << >>
    /\ nodes[LastEval.res].arg
         = Body(calls[Len(calls)].f, calls[Len(calls)].args).val

\* C9: recursive_eval of a COMPOSE node with payload p and inputs whose
\* evaluated payloads are callables returns a CONST-tagged node.
C9_ComposeYieldsConst ==
  EvalReturned("COMPOSE") =>
    /\ LastEval.res # 0
    /\ nodes[LastEval.res].op = "CONST"

\* C10: a COMPOSE node with payload (x,) and one unary input f evaluates to
\* the payload f(x), the tuple splatted as the positional arguments.
C10_ComposeSplats ==
  (/\ evalres # << >>
   /\ LastEval.how = "recursive_eval"
   /\ RootBefore.op = "COMPOSE"
   /\ RootBefore.arg.k = "tuple" /\ Len(RootBefore.arg.t) = 1
   /\ Len(RootBefore.src) = 1
   /\ LastEval.before[RootBefore.src[1]].op = "CALL"
   /\ LastEval.before[RootBefore.src[1]].nosrc
   /\ LastEval.before[RootBefore.src[1]].arg.k = "fn"
   /\ Arity(LastEval.before[RootBefore.src[1]].arg.f) = 1) =>
    /\ LastEval.exc = NoExc
    /\ LastEval.res # 0
    /\ nodes[LastEval.res].arg
         = Body(LastEval.before[RootBefore.src[1]].arg.f,
                <<PInt(RootBefore.arg.t[1])>>).val

\* ------------------------------------------------------ order of invocation
\* The recursive_eval evaluations made so far.
RecEvals == {i \in 1..Len(evalres) : evalres[i].how = "recursive_eval"}

\* In a post-order, left to right walk, the node at path p is done before the
\* node at path q: p is below q, or p is in an earlier input subtree.
Precedes(p, q) ==
  \/ Len(p) > Len(q) /\ SubSeq(p, 1, Len(q)) = q
  \/ \E d \in 1..Len(p) :
       /\ d <= Len(q)
       /\ SubSeq(p, 1, d - 1) = SubSeq(q, 1, d - 1)
       /\ p[d] < q[d]

\* The node at path p (input positions) below node id of the heap h.
RECURSIVE NodeAt(_, _, _)
NodeAt(h, id, p) ==
  IF p = << >> THEN id ELSE NodeAt(h, h[id].src[p[1]], Tail(p))

\* The path, in the graph evaluation e was given, of the node whose payload
\* the callable c is: the node that made the call, or its leaf input that c
\* is the payload of.
Owner(e, c) ==
  LET h == evalres[e].before
      n == h[NodeAt(h, evalres[e].root, c.at)]
  IN  IF c.input # 0 /\ is_leaf(h[n.src[c.input]])
      THEN Append(c.at, c.input) ELSE c.at

\* C11 as stated: in a recursive_eval, the payload callables of the nodes of
\* the i-th input subtree of a node are all invoked before any of the
\* (i+1)-th, and a node's own payload after its inputs; the sequence of
\* invocations is the same on every run.
C11_SubtreeOrder ==
  /\ \A e \in RecEvals :
       \A j \in 1..Len(evalres[e].calls) :
         \A k \in (j + 1)..Len(evalres[e].calls) :
           \/ Owner(e, evalres[e].calls[j]) = Owner(e, evalres[e].calls[k])
           \/ Precedes(Owner(e, evalres[e].calls[j]),
                       Owner(e, evalres[e].calls[k]))
  /\ \A e1 \in RecEvals : \A e2 \in RecEvals :
       evalres[e1].calls = evalres[e2].calls

\* C11 as amended: in a recursive_eval, every callable invoked by the
\* evaluation of the i-th input of a node is invoked before any invoked by
\* the evaluation of the (i+1)-th, and the node's own operation makes its
\* invocations after all its inputs are evaluated: a CALL node one, of its
\* payload; a COMPOSE node one per input, of the payloads of its evaluated
\* inputs in input order, those of leaf inputs included.  A second run of the
\* same graph makes the same invocations in the same order.
C11_EvalOrder ==
  /\ \A e \in RecEvals :
       \A j \in 1..Len(evalres[e].calls) :
         \A k \in (j + 1)..Len(evalres[e].calls) :
           LET a == evalres[e].calls[j]
               b == evalres[e].calls[k]
           IN  \/ Precedes(a.at, b.at)
               \/ a.at = b.at /\ 0 < a.input /\ a.input < b.input
  /\ \A e1 \in RecEvals : \A e2 \in RecEvals :
       /\ evalres[e1].calls = evalres[e2].calls
       /\ evalres[e1].exc = evalres[e2].exc

\* The second run of COMPOSE 10 over [leaf double, CALL tripler [..]]: tripler
\* is entered first, then double and triple by the COMPOSE node itself.
C11_Witness ==
  /\ Cardinality(RecEvals) = 2
  /\ LastEval.exc = NoExc
  /\ RootBefore.op = "COMPOSE"
  /\ Len(calls) = 3
  /\ calls[1].at = <<2>> /\ calls[1].input = 0
  /\ calls[2].at = << >> /\ calls[2].input = 1
  /\ calls[3].at = << >> /\ calls[3].input = 2

\* --------------------------------------------------------------- the frame
\* C12: after recursive_eval(root) returns or raises, every node that existed
\* before (those reachable from root among them) has the operation, payload,
\* inputs and memoized result it had, and when root is not a leaf and the
\* call returns, what it returns is a node that did not exist before.
C12_PureOverGraph ==
  (evalres # << >> /\ LastEval.how = "recursive_eval") =>
    /\ Len(nodes) >= Len(LastEval.before)
    /\ SubSeq(nodes, 1, Len(LastEval.before)) = LastEval.before
    /\ (~is_leaf(RootBefore) /\ LastEval.exc = NoExc) =>
         LastEval.res > Len(LastEval.before)

\* ------------------------------------------------------ invocation errors
\* The node id of the heap h is a CALL node with inputs, all leaves, whose
\* payload is not invocable or takes another number of arguments than it has
\* inputs.
BadCall(h, id) ==
  /\ h[id].op = "CALL"
  /\ ~is_leaf(h[id])
  /\ \A i \in 1..Len(h[id].src) : is_leaf(h[h[id].src[i]])
  /\ h[id].arg.k # "fn" \/ Len(h[id].src) # Arity(h[id].arg.f)

RECURSIVE Occurrences(_, _)
Occurrences(h, id) ==
  IF is_leaf(h[id]) THEN {}
  ELSE {<< >>} \cup UNION {{<<i>> \o p : p \in Occurrences(h, h[id].src[i])} :
                             i \in 1..Len(h[id].src)}

\* The nodes made by the last evaluation that have inputs: the copies
\* recursive_eval built.
Copies == {m \in (Len(LastEval.before) + 1)..Len(nodes) : ~is_leaf(nodes[m])}

\* C19: in a recursive_eval that returned, every occurrence of a non-leaf
\* node in the graph was rebuilt as a node of its own and evaluated by
\* itself: a non-leaf CALL node met k times among the inputs had its payload
\* invoked k times, once at each occurrence, and the copies, as many as there
\* are occurrences, are distinct objects with distinct results.
C19_OncePerOccurrence ==
  (evalres # << >> /\ LastEval.how = "recursive_eval" /\ LastEval.exc = NoExc) =>
    LET h == LastEval.before
        occ == Occurrences(h, LastEval.root)
    IN  /\ \A x \in 1..Len(h) :
             (~is_leaf(h[x]) /\ h[x].op = "CALL") =>
               /\ \A p \in occ :
                    NodeAt(h, LastEval.root, p) = x =>
                      Cardinality({j \in 1..Len(calls) :
                                     calls[j].at = p /\ calls[j].input = 0}) = 1
               /\ Cardinality({j \in 1..Len(calls) :
                                 /\ calls[j].input = 0
                                 /\ NodeAt(h, LastEval.root, calls[j].at) = x})
                    = Cardinality({p \in occ : NodeAt(h, LastEval.root, p) = x})
        /\ Cardinality(Copies) = Cardinality(occ)
        /\ \A m1 \in Copies : \A m2 \in Copies :
             (m1 # m2 /\ nodes[m1].result # 0) =>
               nodes[m1].result # nodes[m2].result

\* mul over [sum, sum], sum a CALL node with inputs: sum's payload was entered
\* twice, then mul's.
C19_Witness ==
  /\ evalres # << >>
  /\ LastEval.how = "recursive_eval"
  /\ LastEval.exc = NoExc
  /\ RootBefore.arg = PFn("mul")
  /\ Len(RootBefore.src) = 2
  /\ RootBefore.src[1] = RootBefore.src[2]
  /\ LastEval.before[RootBefore.src[1]].arg = PFn("add")
  /\ ~is_leaf(LastEval.before[RootBefore.src[1]])
  /\ Len(calls) = 3
  /\ calls[1].at = <<1>> /\ calls[2].at = <<2>> /\ calls[3].at = << >>
  /\ calls[1].f = "add" /\ calls[2].f = "add"

\* ============================================= the configuration, configfile.py
\* --------------------------------------------- graphlib.TopologicalSorter
\* _node2info is an insertion-ordered mapping, here the sequence of its values
\* [node, npredecessors, successors].
CfgNames == {"a", "b", "c"}

NodeInfo(node) == [node |-> node, npredecessors |-> 0, successors |-> << >>]

Known(n2i, node) == \E i \in 1..Len(n2i) : n2i[i].node = node
Pos(n2i, node) == CHOOSE i \in 1..Len(n2i) : n2i[i].node = node

\* _get_nodeinfo: the node's entry, made when there is none.
GetNodeInfo(n2i, node) ==
  IF Known(n2i, node) THEN n2i ELSE Append(n2i, NodeInfo(node))

\* pred_info.successors.append(node), m being the mapping with pred in it.
AppendSuccessor(m, node, pred) ==
  [m EXCEPT ![Pos(m, pred)].successors = Append(@, node)]

\* add's loop over the predecessors, from the i-th on.
RECURSIVE AddPreds(_, _, _, _)
AddPreds(n2i, node, preds, i) ==
  IF i > Len(preds) THEN n2i
  ELSE AddPreds(AppendSuccessor(GetNodeInfo(n2i, preds[i]), node, preds[i]),
                node, preds, i + 1)

\* nodeinfo.npredecessors += len(predecessors), m being the mapping with node
\* in it.
CountPreds(m, node, preds) ==
  [m EXCEPT ![Pos(m, node)].npredecessors = @ + Len(preds)]

\* TopologicalSorter.add(node, *predecessors)
Add(n2i, node, preds) ==
  AddPreds(CountPreds(GetNodeInfo(n2i, node), node, preds), node, preds, 1)

\* TopologicalSorter(graph): add(node, *predecessors) for each item of graph,
\* from the i-th on.
RECURSIVE AddAll(_, _, _)
AddAll(n2i, graph, i) ==
  IF i > Len(graph) THEN n2i
  ELSE AddAll(Add(n2i, graph[i].name, graph[i].depends_on), graph, i + 1)

TopologicalSorter(graph) == AddAll(<< >>, graph, 1)

\* The nodes reached from node by following successors, in 1 to k steps.
RECURSIVE ReachedIn(_, _, _)
ReachedIn(n2i, node, k) ==
  LET direct == {n2i[Pos(n2i, node)].successors[j] :
                   j \in 1..Len(n2i[Pos(n2i, node)].successors)}
  IN  IF k <= 1 THEN direct
      ELSE direct \cup UNION {ReachedIn(n2i, m, k - 1) : m \in direct}

\* _find_cycle finds a cycle exactly when there is one.
FindCycle(n2i) ==
  \E i \in 1..Len(n2i) : n2i[i].node \in ReachedIn(n2i, n2i[i].node, Len(n2i))

\* prepare's _ready_nodes: the nodes without predecessors, in insertion order.
ReadyNodes(n2i) ==
  LET zero == SelectSeq(n2i, LAMBDA info : info.npredecessors = 0)
  IN  [i \in 1..Len(zero) |-> zero[i].node]

\* done's loop over the successors of a node, from the j-th on: each loses a
\* predecessor and is ready when it has none left.
RECURSIVE Release(_, _, _, _)
Released(n2i, ready, succs, j) ==
  Release(n2i,
          IF n2i[Pos(n2i, succs[j])].npredecessors = 0
          THEN Append(ready, succs[j]) ELSE ready,
          succs, j + 1)

Release(n2i, ready, succs, j) ==
  IF j > Len(succs) THEN [n2i |-> n2i, ready |-> ready]
  ELSE Released([n2i EXCEPT ![Pos(n2i, succs[j])].npredecessors = @ - 1],
                ready, succs, j)

\* done(*nodes), from the i-th node on; r is the state after the nodes before.
RECURSIVE Done(_, _, _)
Done(r, group, i) ==
  IF i > Len(group) THEN r
  ELSE Done(Release([r.n2i EXCEPT ![Pos(r.n2i, group[i])].npredecessors = -2],
                    r.ready, r.n2i[Pos(r.n2i, group[i])].successors, 1),
            group, i + 1)

\* get_ready: the ready nodes are passed out (marked -1) and the list cleared.
GetReady(n2i, ready) ==
  [n2i |-> [i \in 1..Len(n2i) |->
              IF \E j \in 1..Len(ready) : ready[j] = n2i[i].node
              THEN [n2i[i] EXCEPT !.npredecessors = -1] ELSE n2i[i]],
   ready |-> << >>]

\* static_order's loop: while is_active(), the ready nodes are yielded and
\* done.  out is what was yielded so far.
RECURSIVE Drain(_, _, _)
Drained(r, out) == Drain(r.n2i, r.ready, out)

Drain(n2i, ready, out) ==
  IF ready = << >> THEN out
  ELSE Drained(Done(GetReady(n2i, ready), ready, 1), out \o ready)

\* static_order(), consumed to its end: CycleError from prepare(), at the
\* first item asked for, or the nodes in the order yielded.
StaticOrder(n2i) ==
  IF FindCycle(n2i) THEN [exc |-> <<"CycleError">>, names |-> << >>]
  ELSE [exc |-> NoExc, names |-> Drain(n2i, ReadyNodes(n2i), << >>)]

\* ------------------------------------------------------- TasksConfigFile
\* TasksConfigFile.tasks: name -> TaskDefinition, in the order of the file.
Declared == {cfg[i].name : i \in 1..Len(cfg)}

\* TasksConfigFile.order(): graph = {name: t.depends_on}, static_order().
order == StaticOrder(TopologicalSorter(cfg))

\* _resolve_task of the task declared as name in the namespace ns (what the
\* attribute called name is: a Task, something else, or absent; pyfunc is the
\* name).
ResolveTask(name, ns) ==
  CASE ns[name] = "absent" -> <<"ValueError">>
    [] ns[name] = "other" -> TypeError
    [] OTHER -> NoExc

\* resolve's dict comprehension over order(), from the i-th name on: keys is
\* the mapping's keys so far, in insertion order.
RECURSIVE ResolveFrom(_, _, _, _)
ResolveFrom(names, ns, i, keys) ==
  IF i > Len(names) THEN [exc |-> NoExc, names |-> keys]
  ELSE IF names[i] \notin Declared
       THEN [exc |-> <<"KeyError">>, names |-> << >>]
  ELSE IF ResolveTask(names[i], ns) # NoExc
       THEN [exc |-> ResolveTask(names[i], ns), names |-> << >>]
  ELSE ResolveFrom(names, ns, i + 1, Append(keys, names[i]))

\* TasksConfigFile.resolve(namespace), o being what order() yields.
resolve(o, ns) ==
  IF o.exc # NoExc THEN o ELSE ResolveFrom(o.names, ns, 1, << >>)

\* ------------------------------------------------------------ the caller
\* The configurations: up to three tasks with distinct names, each depending
\* on up to MaxDeps names.
Configs ==
  {c \in SeqsUpTo([name : CfgNames, depends_on : SeqsUpTo(CfgNames, MaxDeps)],
                  Cardinality(CfgNames)) :
     \A i \in 1..Len(c) : \A j \in 1..Len(c) : i # j => c[i].name # c[j].name}

InitCfg ==
  /\ InitTask
  /\ InitOpsIdle
  /\ cfg \in Configs
  /\ cfgout = NoCfgOut

\* tuple(config.order())
Order ==
  /\ cfgout.op = "none"
  /\ cfgout' = [op |-> "order", exc |-> order.exc, names |-> order.names]
  /\ UNCHANGED cfg

\* config.resolve(namespace)
Resolve(ns) ==
  /\ cfgout.op = "none"
  /\ cfgout' = [op |-> "resolve", exc |-> resolve(order, ns).exc,
                names |-> resolve(order, ns).names]
  /\ UNCHANGED cfg

NextCfg ==
  /\ \/ Order
     \/ \E ns \in [CfgNames -> {"task", "other", "absent"}] : Resolve(ns)
  /\ UNCHANGED taskVars
  /\ UNCHANGED opsVars

SpecCfg == InitCfg /\ [][NextCfg]_vars

\* ------------------------------------------------ properties, configuration
\* The position of name in the sequence names (0: not there).
IndexOf(names, name) ==
  IF \E i \in 1..Len(names) : names[i] = name
  THEN CHOOSE i \in 1..Len(names) : names[i] = name ELSE 0

\* C15: the order produced from a configuration holds every declared task
\* name exactly once and nothing else, every task after all the names in its
\* depends_on, and resolve builds its mapping in that order.
C15_TopologicalOrder ==
  /\ (cfgout.op = "order" /\ cfgout.exc = NoExc) =>
       /\ {cfgout.names[i] : i \in 1..Len(cfgout.names)} = Declared
       /\ Len(cfgout.names) = Cardinality(Declared)
       /\ \A i \in 1..Len(cfg) : \A j \in 1..Len(cfg[i].depends_on) :
            /\ IndexOf(cfgout.names, cfg[i].depends_on[j]) > 0
            /\ IndexOf(cfgout.names, cfg[i].depends_on[j])
                 < IndexOf(cfgout.names, cfg[i].name)
  /\ (cfgout.op = "resolve" /\ order.exc = NoExc) =>
       cfgout.exc # <<"KeyError">>
  /\ (cfgout.op = "resolve" /\ cfgout.exc = NoExc) =>
       cfgout.names = order.names

====
